---- MODULE Spec2Model ----
(***************************************************************************)
(* A model of mood.ippc: the framed connection state machine               *)
(* (connection.py) and the rpc layer built on it (rpc.py).                 *)
(*                                                                         *)
(* The program is single-threaded and callback driven.  One action of the  *)
(* model is one entry from the outside into the program: a watcher         *)
(* callback fired by an event loop, or a call made by user code.  The      *)
(* whole call tree below that entry (callbacks invoked synchronously,      *)
(* error paths, close) is evaluated by the recursive operators below, on   *)
(* a record `w' that holds every variable of the model.                    *)
(***************************************************************************)
EXTENDS Integers, Sequences, FiniteSets, TLC

VARIABLES conn, sock, ghost, exc, srv, cli

vars == <<conn, sock, ghost, exc, srv, cli>>

\* ---------------------------------------------------------------- bounds

MaxBytes == 3     \* bytes the peer of the generic connection ever sends
MaxTickets == 3   \* read() and write() calls made on the generic connection
MaxCalls == 1     \* calls user code makes through the client proxy
MaxStops == 2     \* times stop() gets past its guard on the ClientLoop

\* ---------------------------------------------------------------- helpers

None == "None"

\* None where the other values are tuples
Nil == <<>>
NoExc == <<>>

\* stack: the callbacks being executed right now, outermost first; it is
\* empty whenever control is back in an event loop or in user code.
World == [conn |-> conn, sock |-> sock, ghost |-> ghost, exc |-> exc,
          srv |-> srv, cli |-> cli, stack |-> <<>>]

\* the handler has run to its end and left the world w
Becomes(w) ==
    \E v \in {w} :
        /\ conn' = v.conn
        /\ sock' = v.sock
        /\ ghost' = v.ghost
        /\ exc' = v.exc
        /\ srv' = v.srv
        /\ cli' = v.cli

\* Python evaluates an argument once, before the call: Then(x, F) is F
\* applied to the value of x
Then(x, F(_)) == CHOOSE y \in {F(v) : v \in {x}} : TRUE

Raise(w, e) == [w EXCEPT !.exc = e]

Take(s, n) == SubSeq(s, 1, n)
Drop(s, n) == SubSeq(s, n + 1, Len(s))

\* ---------------------------------------------------------------- user callbacks
\* What a user-supplied callback does to the connection it is called on:
\* a straight-line program of calls on the connection's public interface.

Scripts ==
    [nop   |-> <<>>,
     rd    |-> << [op |-> "read", size |-> 2, cb |-> "nop"],
                  [op |-> "read", size |-> 1, cb |-> "nop"] >>,
     wr    |-> << [op |-> "write", len |-> 1, cb |-> "nop"] >>,
     cl    |-> << [op |-> "close", notify |-> TRUE] >>,
     boom  |-> << [op |-> "raise"] >>]

ScriptIds == DOMAIN Scripts

\* ---------------------------------------------------------------- Connection

NewConnection(kind, on_close) ==
    [kind |-> kind,
     on_close |-> on_close,
     closing |-> FALSE,
     wtasks |-> <<>>,
     writer |-> FALSE,
     rbuf |-> <<>>,
     rtasks |-> <<>>,
     reader |-> TRUE,
     cleaned |-> FALSE,
     overwatch |-> FALSE,
     loop |-> [depth |-> 0, brk |-> FALSE]]

\* A socket: inq holds the bytes that have arrived and were not read yet,
\* eof says the other end was closed, peer names the socket at the other
\* end (None for the generic connection, whose peer is the environment).
NewSocket(inq, peer) ==
    [closed |-> FALSE, inq |-> inq, eof |-> FALSE, peer |-> peer]

\* History of one connection: tickets number the read() and write() calls
\* in the order they were made; queued holds the read tickets that were
\* appended to the read queue; wcum[t] is the number of bytes handed to
\* write() up to and including write t; sent counts the bytes the socket
\* accepted.  rlog, wlog and clog have one entry per invocation of a read
\* callback, of a write completion callback and of the on_close hook, in
\* the order the invocations started: the ticket, the tickets of the same
\* kind whose callbacks were still running at that moment (inside), every
\* callback of the connection still running at that moment (under),
\* whether the connection was closed, and the bytes accepted so far.  closes counts the
\* close() calls: 0, 1, or 2 for two or more.
NewGhost ==
    [nread |-> 0, nwrite |-> 0, closes |-> 0, queued |-> {},
     wcum |-> <<>>, sent |-> 0, teardowns |-> 0,
     rlog |-> <<>>, wlog |-> <<>>, clog |-> <<>>]

LogOf(kind) == CASE kind = "r" -> "rlog" [] kind = "w" -> "wlog"
                 [] kind = "c" -> "clog"

closed_never(w, c) == FALSE

\* the closed property: the socket's
closed(w, c) == w.sock[c].closed

RECURSIVE close(_, _, _)
RECURSIVE __run__(_, _, _, _, _)
RECURSIVE __on_error__(_, _)
RECURSIVE __consume__(_, _, _, _, _)
RECURSIVE read(_, _, _, _)
RECURSIVE write(_, _, _, _)
RECURSIVE RunOps(_, _, _)
RECURSIVE Invoke(_, _, _, _)
RECURSIVE Walk(_, _)
RECURSIVE RpcInvoke(_, _, _, _)

\* socket.close(): the other end, if any, sees end of file
SocketClose(w, c) ==
    LET p == w.sock[c].peer
        w1 == [w EXCEPT !.sock[c].closed = TRUE]
    IN  IF p # None THEN [w1 EXCEPT !.sock[p].eof = TRUE] ELSE w1

Connection__stop___keeps_tasks(w, c) ==
    SocketClose([w EXCEPT !.conn[c].reader = FALSE,
                          !.conn[c].writer = FALSE,
                          !.ghost[c].teardowns = @ + 1], c)

Connection__stop__(w, c) ==
    SocketClose([w EXCEPT !.conn[c].reader = FALSE,
                          !.conn[c].rtasks = <<>>,
                          !.conn[c].rbuf = <<>>,
                          !.conn[c].writer = FALSE,
                          !.conn[c].wtasks = <<>>,
                          !.ghost[c].teardowns = @ + 1], c)

\* loop.stop(EVBREAK_ALL): a running loop returns once the callback it is
\* in has returned; on a loop that is not running it has no effect.
LoopBreak(l) == IF l.depth > 0 THEN [l EXCEPT !.brk = TRUE] ELSE l

Overwatch__stop__(w, c) ==
    Connection__stop__([w EXCEPT !.conn[c].loop = LoopBreak(@),
                                 !.conn[c].overwatch = FALSE], c)

__stop__(w, c) ==
    IF w.conn[c].kind = "Client"
    THEN Overwatch__stop__(w, c)
    ELSE Connection__stop__(w, c)

__cleanup__(w, c) == [w EXCEPT !.conn[c].cleaned = TRUE]

CloseBody(w_, c, notify) ==
    Then(w_, LAMBDA w :
        LET w1 == [w EXCEPT !.conn[c].closing = TRUE]
            w2 == __stop__(w1, c)
            w3 == __cleanup__(w2, c)
            cb == w3.conn[c].on_close
            w4 == IF cb # None
                  THEN LET w3a == [w3 EXCEPT !.conn[c].on_close = None]
                       IN  IF notify
                           THEN __run__(w3a, c, cb, <<c>>, <<"c", 0>>)
                           ELSE w3a
                  ELSE w3
        IN  [w4 EXCEPT !.conn[c].closing = FALSE])

CloseGuard_closing_only(w, c) == ~w.conn[c].closing

CloseGuard(w, c) == ~closed(w, c) /\ ~w.conn[c].closing

close(w_, c, notify) ==
    Then(w_, LAMBDA w :
        LET w0 == [w EXCEPT !.ghost[c].closes = IF @ = 0 THEN 1 ELSE 2]
        IN  IF CloseGuard(w0, c) THEN CloseBody(w0, c, notify) ELSE w0)

__on_error__(w, c) == close(w, c, TRUE)

RunExcept_lets_through(w_, c) ==
    Then(w_, LAMBDA w : [w EXCEPT !.stack = Take(@, Len(@) - 1)])

\* `except Exception: self.__on_error__()' in __run__, w being the state
\* the callback left
RunExcept(w_, c) ==
    Then(w_, LAMBDA w :
        LET w1 == [w EXCEPT !.stack = Take(@, Len(@) - 1)]
        IN  IF w1.exc # NoExc
            THEN __on_error__([w1 EXCEPT !.exc = NoExc], c)
            ELSE w1)

\* tag is <<kind, ticket>>: which task the callback belongs to ("r" a read
\* task, "w" a write task, "c" the on_close hook).
__run__(w_, c, cb, args, tag) ==
    Then(w_, LAMBDA w :
        LET e == [tk |-> tag[2],
                  inside |-> {w.stack[i][3] : i \in {j \in 1..Len(w.stack) :
                                w.stack[j][1] = c /\ w.stack[j][2] = tag[1]}},
                  under |-> {<<w.stack[i][2], w.stack[i][3]>> :
                                i \in {j \in 1..Len(w.stack) :
                                           w.stack[j][1] = c}},
                  closed |-> closed(w, c),
                  sent |-> IF tag[1] = "w" THEN w.ghost[c].sent ELSE 0]
            w1 == [w EXCEPT !.ghost[c][LogOf(tag[1])] = Append(@, e),
                            !.stack = Append(@, <<c, tag[1], tag[2]>>)]
        IN  RunExcept(Invoke(w1, c, cb, args), c))

DoOp(w, c, o) ==
    CASE o.op = "read"  -> read(w, c, o.size, o.cb)
      [] o.op = "write" -> write(w, c, [i \in 1..o.len |-> 0], o.cb)
      [] o.op = "close" -> close(w, c, o.notify)
      [] o.op = "raise" -> Raise(w, <<"ValueError", "x">>)

RunOps(w_, c, ops) ==
    Then(w_, LAMBDA w :
        IF ops = <<>> \/ w.exc # NoExc
        THEN w
        ELSE RunOps(DoOp(w, c, Head(ops)), c, Tail(ops)))

Invoke(w, c, cb, args) ==
    IF cb \in ScriptIds
    THEN RunOps(w, c, Scripts[cb])
    ELSE RpcInvoke(w, c, cb, args)

\* -- read

__consume___strict(w_, c, size, cb, tk) ==
    Then(w_, LAMBDA w :
        IF Len(w.conn[c].rbuf) > size
        THEN LET buf == Take(w.conn[c].rbuf, size)
                 w1 == [w EXCEPT !.conn[c].rbuf = Drop(@, size)]
             IN  [w |-> __run__(w1, c, cb, <<buf>>, <<"r", tk>>), ok |-> TRUE]
        ELSE [w |-> w, ok |-> FALSE])

__consume__(w_, c, size, cb, tk) ==
    Then(w_, LAMBDA w :
        IF Len(w.conn[c].rbuf) >= size
        THEN LET buf == Take(w.conn[c].rbuf, size)
                 w1 == [w EXCEPT !.conn[c].rbuf = Drop(@, size)]
             IN  [w |-> __run__(w1, c, cb, <<buf>>, <<"r", tk>>), ok |-> TRUE]
        ELSE [w |-> w, ok |-> FALSE])

WalkNext_drops(r_, c, task) ==
    Then(r_, LAMBDA r :
        IF r.ok THEN Walk(r.w, c) ELSE r.w)

\* the body of the while loop in __on_read__ after __consume__ returned r:
\* go on with the next task, or put the task back and break
WalkNext(r_, c, task) ==
    Then(r_, LAMBDA r :
        IF r.ok
        THEN Walk(r.w, c)
        ELSE [r.w EXCEPT !.conn[c].rtasks = <<task>> \o @])

Walk(w_, c) ==
    Then(w_, LAMBDA w :
        IF w.conn[c].rtasks # <<>>
        THEN LET task == Head(w.conn[c].rtasks)
                 w1 == [w EXCEPT !.conn[c].rtasks = Tail(@)]
             IN  WalkNext(__consume__(w1, c, task[1], task[2], task[3]), c, task)
        ELSE w)

\* `if self._socket_.read(...): self.__on_error__()': the peer has closed
PeerClosed(w_, c, eof) ==
    Then(w_, LAMBDA w :
        IF eof THEN __on_error__(w, c) ELSE w)

ReadElse_closes_first(w, c, eof) == Walk(PeerClosed(w, c, eof), c)

\* the else branch of __on_read__: walk the read queue, then look at what
\* socket.read returned
ReadElse(w, c, eof) == PeerClosed(Walk(w, c), c, eof)

\* outcome of socket.read(rbuf): <<"block">>, <<"fail">> or <<"ok", k>>
\* (k bytes moved from the socket into rbuf; the socket reports the peer
\* closed when the peer has closed and nothing is left to read).
__on_read__(w, c, out) ==
    CASE out[1] = "block" -> w
      [] out[1] = "fail"  -> __on_error__(w, c)
      [] out[1] = "ok"    ->
            LET k == out[2]
                eof == w.sock[c].eof /\ k = Len(w.sock[c].inq)
                w1 == [w EXCEPT
                         !.conn[c].rbuf = @ \o Take(w.sock[c].inq, k),
                         !.sock[c].inq = Drop(@, k)]
            IN  ReadElse(w1, c, eof)

ReadEnqueue_front(w, c, size, cb, tk) ==
    IF closed(w, c)
    THEN Raise(w, <<"ConnectionError", "already closed">>)
    ELSE [w EXCEPT !.conn[c].rtasks = <<<<size, cb, tk>>>> \o @,
                   !.ghost[c].queued = @ \cup {tk}]

ReadEnqueue(w, c, size, cb, tk) ==
    IF closed(w, c)
    THEN Raise(w, <<"ConnectionError", "already closed">>)
    ELSE [w EXCEPT !.conn[c].rtasks = Append(@, <<size, cb, tk>>),
                   !.ghost[c].queued = @ \cup {tk}]

ReadBehindQueue_never(w, c) == FALSE

\* `self._rtasks_ or ...' in read(): tasks are waiting, so the new read
\* goes behind them without looking at the buffer.
ReadBehindQueue(w, c) == w.conn[c].rtasks # <<>>

\* `... or not self.__consume__(size, callback)' in read(): the task is
\* queued only when the buffer could not satisfy it
ReadUnlessConsumed(r_, c, size, cb, tk) ==
    Then(r_, LAMBDA r :
        IF r.ok THEN r.w ELSE ReadEnqueue(r.w, c, size, cb, tk))

read(w_, c, size, cb) ==
    Then(w_, LAMBDA w :
        LET tk == w.ghost[c].nread + 1
            w0 == IF size # 0 THEN [w EXCEPT !.ghost[c].nread = tk] ELSE w
        IN  IF size # 0
            THEN IF ReadBehindQueue(w0, c)
                 THEN ReadEnqueue(w0, c, size, cb, tk)
                 ELSE ReadUnlessConsumed(__consume__(w0, c, size, cb, tk),
                                         c, size, cb, tk)
            ELSE w0)

\* -- write

\* outcome of socket.write(buf): <<"block">>, <<"fail">> or <<"ok", k>>
\* (the socket accepted the first k bytes of buf).
Deliver(w, c, bytes) ==
    LET p == w.sock[c].peer
        w1 == [w EXCEPT !.ghost[c].sent = @ + Len(bytes)]
    IN  IF p # None /\ ~w1.sock[p].closed
        THEN [w1 EXCEPT !.sock[p].inq = @ \o bytes]
        ELSE w1

WriterStop_never(w, c, left) == w

WriterStop(w, c, left) ==
    IF left = <<>> THEN [w EXCEPT !.conn[c].writer = FALSE] ELSE w

Remaining_none(buf, k) == <<>>

\* what socket.write leaves in the task's buffer after accepting k bytes
Remaining(buf, k) == Drop(buf, k)

WriteBlocked_drops(w, c, task) == w

\* `except BlockingIOError: self._wtasks_.appendleft(task)'
WriteBlocked(w, c, task) == [w EXCEPT !.conn[c].wtasks = <<task>> \o @]

WritePartial_drops(w, c, task, buf) == w

\* `if buf: self._wtasks_.appendleft(task)': buf is what the socket left
\* of the task's buffer
WritePartial(w, c, task, buf) ==
    [w EXCEPT !.conn[c].wtasks = <<<<buf, task[2], task[3]>>>> \o @]

OnWriteTask(w_, c, out) ==
    Then(w_, LAMBDA w :
        LET task == Head(w.conn[c].wtasks)
            w1 == [w EXCEPT !.conn[c].wtasks = Tail(@)]
        IN  CASE out[1] = "block" -> WriteBlocked(w1, c, task)
              [] out[1] = "fail"  -> __on_error__(w1, c)
              [] out[1] = "ok"    ->
                    LET k == out[2]
                        buf == Remaining(task[1], k)
                        w2 == Deliver(w1, c, Take(task[1], k))
                    IN  IF buf # <<>>
                        THEN WritePartial(w2, c, task, buf)
                        ELSE LET w3 == WriterStop(w2, c, w2.conn[c].wtasks)
                             IN  IF task[2] # None
                                 THEN __run__(w3, c, task[2], <<>>,
                                              <<"w", task[3]>>)
                                 ELSE w3)

__on_write__(w, c, out) ==
    IF w.conn[c].wtasks = <<>>
    THEN Raise(w, <<"IndexError", "pop from an empty deque">>)
    ELSE OnWriteTask(w, c, out)

write(w_, c, buf, cb) ==
    Then(w_, LAMBDA w :
        LET tk == w.ghost[c].nwrite + 1
            w0 == IF buf # <<>>
                  THEN [w EXCEPT !.ghost[c].nwrite = tk,
                                 !.ghost[c].wcum = Append(@,
                                   (IF @ = <<>> THEN 0 ELSE @[Len(@)]) + Len(buf))]
                  ELSE w
        IN  IF buf # <<>>
            THEN IF closed(w0, c)
                 THEN Raise(w0, <<"ConnectionError", "already closed">>)
                 ELSE LET w1 == [w0 EXCEPT
                                   !.conn[c].wtasks = Append(@, <<buf, cb, tk>>)]
                      IN  IF ~w1.conn[c].writer
                          THEN [w1 EXCEPT !.conn[c].writer = TRUE]
                          ELSE w1
            ELSE w0)


\* ---------------------------------------------------------------- pack
\* The codec (pack.py).  A value is a request <<"req", name, args, kwargs>>,
\* a plain value <<"val", x>> or an exception instance <<"err", type, msg>>.
\* A dotted name "a.b" is the tuple <<"a", "b">> of its parts.

Req(name, args, kwargs) == <<"req", name, args, kwargs>>
Val(x) == <<"val", x>>
Err(type, msg) == <<"err", type, msg>>

\* isinstance(v, Exception)
IsError(v) == v # Nil /\ v[1] = "err"

NoMethod(name) == Err("AttributeError", <<"no method", name>>)

\* The names user code calls through the client proxy, each with the
\* arguments it passes.
ReqNames == << <<"echo">>, <<"math", "add">>, <<"add">>, <<"_hidden">>,
               <<"helper">>, <<"boom">>, <<"look">>, <<"die">>,
               <<"mkerr">>, <<"put">>, <<"exotic">>, <<"opaque">> >>

CallArgs(name) ==
    IF name[Len(name)] = "echo" THEN <<"hello">>
    ELSE IF name[Len(name)] = "add" THEN <<"2", "3">>
    ELSE IF name[Len(name)] = "put" THEN <<"alien">>
    ELSE <<>>

\* The types each process registers with the codec besides the built-in
\* errors: the `types' keyword of its loop.
LoopTypes(who) == IF who = "srv" THEN {"Exotic"} ELSE {"Alien"}

\* register_errors(); register_types(*kwargs.pop("types", ())): the
\* built-in value types, the built-in errors and the types of the loop
Registry(who) ==
    {"builtin", "ValueError", "KeyError", "TypeError", "AttributeError"}
    \cup LoopTypes(who)

TypeOf(x) ==
    CASE x = "alien" -> "Alien"
      [] x = "exotic" -> "Exotic"
      [] x = "obj" -> "Opaque"
      [] OTHER -> "builtin"

\* the types a value is made of
TypesOf(v) ==
    CASE v[1] = "req" -> {TypeOf(v[3][i]) : i \in 1..Len(v[3])}
      [] v[1] = "val" -> {TypeOf(v[2])}
      [] OTHER -> {v[2]}

\* Every value the codec has a registered type for, in a fixed order; the
\* payload of a value is its position.
Codebook ==
    [i \in 1..Len(ReqNames) |-> Req(ReqNames[i], CallArgs(ReqNames[i]), <<>>)]
    \o [i \in 1..Len(ReqNames) |-> NoMethod(ReqNames[i])]
    \o << Val("hello"), Val("5"), Val("None"), Val("alien"), Val("exotic"),
          Val("obj"),
          Err("ValueError", <<"x">>), Err("ValueError", <<"made">>),
          Err("KeyError", <<"k">>), Err("TypeError", <<"unpack">>),
          Err("ValueError", <<"unpack">>) >>

Registered(v, who) ==
    /\ \E i \in 1..Len(Codebook) : Codebook[i] = v
    /\ TypesOf(v) \subseteq Registry(who)

Payload(v) == << CHOOSE i \in 1..Len(Codebook) : Codebook[i] = v >>

ByteBase == 256

RECURSIVE SizeBytes(_)
SizeBytes(n) ==
    IF n < ByteBase THEN <<n>>
    ELSE <<n % ByteBase>> \o SizeBytes(n \div ByteBase)

RECURSIVE size(_)
size(buf) ==
    IF buf = <<>> THEN 0
    ELSE buf[1] + ByteBase * size(Tail(buf))

\* encode(v) in process `who': L, the L size bytes, the payload; fails on a
\* value whose type
\* is not registered
encode(v, who) ==
    IF Registered(v, who)
    THEN LET sz == SizeBytes(Len(Payload(v)))
         IN  [ok |-> TRUE, buf |-> <<Len(sz)>> \o sz \o Payload(v)]
    ELSE [ok |-> FALSE, err |-> Err("TypeError", <<"encode">>)]

unpack(buf, who) ==
    IF /\ Len(buf) = 1 /\ buf[1] \in 1..Len(Codebook)
       /\ TypesOf(Codebook[buf[1]]) \subseteq Registry(who)
    THEN [ok |-> TRUE, v |-> Codebook[buf[1]]]
    ELSE [ok |-> FALSE, err |-> Err("ValueError", <<"unpack">>)]

\* ---------------------------------------------------------------- services
\* The objects handed to ServerLoop: the attributes dir() lists on each,
\* whether the attribute is callable and whether it carries __public__.
\* The root service is the ServerLoop object itself.

RootService ==
    << [name |-> "_hidden", callable |-> TRUE,  public |-> TRUE],
       [name |-> "boom",    callable |-> TRUE,  public |-> TRUE],
       [name |-> "die",     callable |-> TRUE,  public |-> TRUE],
       [name |-> "echo",    callable |-> TRUE,  public |-> TRUE],
       [name |-> "exotic",  callable |-> TRUE,  public |-> TRUE],
       [name |-> "helper",  callable |-> TRUE,  public |-> FALSE],
       [name |-> "look",    callable |-> TRUE,  public |-> TRUE],
       [name |-> "mkerr",   callable |-> TRUE,  public |-> TRUE],
       [name |-> "opaque",  callable |-> TRUE,  public |-> TRUE],
       [name |-> "put",     callable |-> TRUE,  public |-> TRUE],
       [name |-> "version", callable |-> FALSE, public |-> FALSE] >>

MathService ==
    << [name |-> "add",   callable |-> TRUE, public |-> TRUE],
       [name |-> "_sub",  callable |-> TRUE, public |-> TRUE] >>

Services == << [key |-> "math", value |-> MathService] >>

\* What calling a bound method does: it returns a value or raises.
Apply(method, args, kwargs) ==
    CASE method = <<"", "echo">> ->
            IF Len(args) = 1
            THEN [raised |-> FALSE, v |-> Val(args[1])]
            ELSE [raised |-> TRUE, v |-> Err("TypeError", <<"unpack">>)]
      [] method = <<"math", "add">> -> [raised |-> FALSE, v |-> Val("5")]
      [] method = <<"", "boom">> ->
            [raised |-> TRUE, v |-> Err("ValueError", <<"x">>)]
      [] method = <<"", "look">> ->
            [raised |-> TRUE, v |-> Err("KeyError", <<"k">>)]
      [] method = <<"", "die">> ->
            [raised |-> TRUE, v |-> Err("CriticalError", <<"stop">>)]
      [] method = <<"", "mkerr">> ->
            [raised |-> FALSE, v |-> Err("ValueError", <<"made">>)]
      [] method = <<"", "exotic">> -> [raised |-> FALSE, v |-> Val("exotic")]
      [] method = <<"", "opaque">> -> [raised |-> FALSE, v |-> Val("obj")]
      [] OTHER -> [raised |-> FALSE, v |-> Val("None")]

\* ---------------------------------------------------------------- BaseLoop

RECURSIVE stop(_, _)
RECURSIVE ClosePeers(_)

stopped(w, who) == w[who].depth = 0

\* threads of control of a loop: it runs watcher callbacks only while it is
\* running and no break is pending
Running(l) == l.depth > 0 /\ ~l.brk

BaseLoop__on_error___logs_only(w, who) == w

\* BaseLoop.__on_error__: log, then `finally: self.stop()'
BaseLoop__on_error__(w, who) == stop(w, who)

ClosePeersNext(w_) ==
    Then(w_, LAMBDA w :
        IF w.exc # NoExc THEN w ELSE ClosePeers(w))

\* ServerLoop.stopping
ClosePeers(w_) ==
    Then(w_, LAMBDA w :
        IF w.srv.peers = <<>>
        THEN w
        ELSE LET peer == w.srv.peers[Len(w.srv.peers)]
                 w1 == [w EXCEPT !.srv.peers = Take(@, Len(@) - 1)]
                 w2 == [w1 EXCEPT !.srv.trace = Append(@, <<"close", peer>>)]
             IN  ClosePeersNext(close(w2, peer, FALSE)))

\* self._socket_.close() at the end of ServerLoop.stopping
CloseListener(w_) ==
    Then(w_, LAMBDA w :
        IF w.exc # NoExc
        THEN w
        ELSE [w EXCEPT !.srv.lsock_closed = TRUE,
                       !.srv.trace = Append(@, <<"listener">>)])

ServerLoop_stopping_listener_first(w) == ClosePeers(CloseListener(w))

ServerLoop_stopping(w) == CloseListener(ClosePeers(w))

\* ClientLoop.stopping
ClientLoop_stopping(w) ==
    IF w.cli.client # None THEN close(w, w.cli.client, TRUE) ELSE w

stopping(w, who) ==
    IF who = "srv" THEN ServerLoop_stopping(w) ELSE ClientLoop_stopping(w)

StopGuard(w, who) == ~stopped(w, who) /\ ~w[who].stopping

\* `except Exception: self.__on_error__("error while stopping")'
StopExcept(w_, who) ==
    Then(w_, LAMBDA w :
        IF w.exc # NoExc
        THEN BaseLoop__on_error__([w EXCEPT !.exc = NoExc], who)
        ELSE w)

\* the finally clause of stop
StopFinally(w_, who) ==
    Then(w_, LAMBDA w :
        [w EXCEPT ![who] = LoopBreak(@), ![who].stopping = FALSE])

stop(w_, who) ==
    Then(w_, LAMBDA w :
        IF StopGuard(w, who)
        THEN LET w1 == [w EXCEPT ![who].stopping = TRUE,
                                 ![who].watchers = <<>>,
                                 ![who].active = {},
                                 ![who].stops = @ + 1]
             IN  StopFinally(StopExcept(stopping(w1, who), who), who)
        ELSE w)

\* ---------------------------------------------------------------- ServerLoop

\* __methods__: the (dotted name, bound method) pairs of one service
RECURSIVE __methods__(_, _)
Prefixed_bare(key, name) == <<name>>

\* f"{key}.{name}" if key else name
Prefixed(key, name) == IF key # "" THEN <<key, name>> ELSE <<name>>

\* name.startswith("_")
Underscored == {"_hidden", "_sub"}

IsPublic(a) == a.name \notin Underscored /\ a.callable /\ a.public

__methods__(value, key) ==
    IF value = <<>> THEN <<>>
    ELSE (IF IsPublic(Head(value))
          THEN << <<Prefixed(key, Head(value).name),
                    <<key, Head(value).name>>>> >>
          ELSE <<>>) \o __methods__(Tail(value), key)

\* dict.update with a sequence of pairs: a later pair replaces an earlier
\* one with the same key
RECURSIVE Update(_, _)
Update(d, pairs) ==
    IF pairs = <<>> THEN d
    ELSE LET k == Head(pairs)[1]
             rest == SelectSeq(d, LAMBDA e : e[1] # k)
         IN  Update(Append(rest, Head(pairs)), Tail(pairs))

RECURSIVE UpdateAll(_, _)
UpdateAll(d, services) ==
    IF services = <<>> THEN d
    ELSE UpdateAll(Update(d, __methods__(Head(services).value,
                                         Head(services).key)),
                   Tail(services))

ServerLoop__init__ ==
    UpdateAll(Update(<<>>, __methods__(RootService, "")), Services)

HasKey(d, k) == \E i \in 1..Len(d) : d[i][1] = k
Lookup(d, k) == d[CHOOSE i \in 1..Len(d) : d[i][1] = k][2]

\* self._methods_[name](*args, **kwargs)
CallNamed(w, name, args, kwargs) ==
    IF HasKey(w.srv.methods, name)
    THEN LET a == Apply(Lookup(w.srv.methods, name), args, kwargs)
         IN  [method |-> Lookup(w.srv.methods, name), raised |-> a.raised,
              v |-> a.v]
    ELSE [method |-> Nil, raised |-> TRUE,
          v |-> Err("KeyError", <<"missing", name>>)]

\* try: ... except KeyError: raise AttributeError(f"no method '{name}'"),
\* c being what the call did
TryCall(c, name) ==
    IF c.raised /\ c.v[2] = "KeyError"
    THEN [c EXCEPT !.v = NoMethod(name)]
    ELSE c

\* what the try block around the call leaves in result, or the CriticalError
\* it lets through; `raised' keeps what the call itself raised
Dispatched(c, name) ==
    Then(TryCall(c, name), LAMBDA r :
        [critical |-> r.raised /\ r.v[2] = "CriticalError",
         v |-> r.v, name |-> name, method |-> r.method,
         raised |-> IF c.raised THEN c.v ELSE NoExc])

\* u is what unpack(buf) gave
Unpacked(w, u) ==
    IF ~u.ok
    THEN [critical |-> FALSE, v |-> u.err, name |-> Nil,
          method |-> Nil, raised |-> u.err]
    ELSE IF u.v[1] # "req"
    THEN [critical |-> FALSE, v |-> Err("TypeError", <<"unpack">>),
          name |-> Nil, method |-> Nil,
          raised |-> Err("TypeError", <<"unpack">>)]
    ELSE Then(CallNamed(w, u.v[2], u.v[3], u.v[4]),
              LAMBDA c : Dispatched(c, u.v[2]))

Process_decoding_critical(w, buf) ==
    Then(unpack(buf, "srv"), LAMBDA u :
        [Unpacked(w, u) EXCEPT !.critical = @ \/ ~u.ok])

\* the try block around unpack and the call
Process(w, buf) == Then(unpack(buf, "srv"), LAMBDA u : Unpacked(w, u))

\* ServerLoop.__on_request__: the bytes to send back, <<>> for None.
\* srv.log gets one entry per request: the name asked for, the method that
\* was called (Nil if none), the exception the call raised (NoExc if
\* none) and the value that was encoded into the response (Nil if none).
Respond(w_, r) ==
    Then(w_, LAMBDA w :
        LET e == IF r.critical THEN [ok |-> FALSE] ELSE encode(r.v, "srv")
            entry == [name |-> r.name, method |-> r.method, raised |-> r.raised,
                      response |-> IF e.ok THEN r.v ELSE Nil]
            w1 == [w EXCEPT !.srv.log = Append(@, entry)]
        IN  IF e.ok
            THEN [w |-> w1, ret |-> e.buf]
            ELSE [w |-> BaseLoop__on_error__(w1, "srv"), ret |-> <<>>])

ServerLoop__on_request__(w, buf) ==
    Then(Process(w, buf), LAMBDA r : Respond(w, r))

Remove_none(peers, peer) == peers

\* deque.remove: without the first occurrence of peer
Remove(peers, peer) ==
    LET i == CHOOSE i \in 1..Len(peers) :
                 /\ peers[i] = peer
                 /\ \A j \in 1..(i - 1) : peers[j] # peer
    IN  Take(peers, i - 1) \o Drop(peers, i)

ServerLoop__on_close__(w_, peer) ==
    Then([w_ EXCEPT !.srv.trace = Append(@, <<"on_close", peer>>)],
         LAMBDA w :
            IF \E i \in 1..Len(w.srv.peers) : w.srv.peers[i] = peer
            THEN [w EXCEPT !.srv.peers = Remove(@, peer)]
            ELSE Raise(w, Err("ValueError", <<"not in deque">>)))

\* ---------------------------------------------------------------- Peer

\* srv.heard gets one entry per step of a Peer's cycle, in order: the
\* callback of each stage with the bytes it was given, the call of write()
\* with what the handler returned, and the completion callback of the
\* write.
Heard(w, c, stage, buf) ==
    [w EXCEPT !.srv.heard = Append(@, <<c, stage, buf>>)]

Peer_wait(w, c) == read(w, c, 1, "Peer.__on_len__")

Peer__on_len___one_byte(w, c, buf) ==
    read(Heard(w, c, "len", buf), c, 1, "Peer.__on_size__")

\* self.read(buf[0], self.__on_size__)
Peer__on_len__(w, c, buf) ==
    read(Heard(w, c, "len", buf), c, buf[1], "Peer.__on_size__")

Peer__on_size__(w, c, buf) ==
    read(Heard(w, c, "size", buf), c, size(buf), "Peer.__on_request__")

\* self.write(<what the handler returned>, self.wait)
Reply(h_, c) ==
    Then(h_, LAMBDA h :
        write(Heard(h.w, c, "write", h.ret), c, h.ret, "Peer.wait"))

Peer__on_request__(w, c, buf) ==
    Reply(ServerLoop__on_request__(Heard(w, c, "request", buf), buf), c)

NewPeer == NewConnection("Peer", "ServerLoop.__on_close__")

\* Peer(handler, socket, loop, on_close=...) and the append to _peers_
Peer__init__(w_, c) ==
    Then(w_, LAMBDA w :
        LET w1 == [w EXCEPT !.conn = (c :> NewPeer) @@ @]
            w2 == Peer_wait(w1, c)
        IN  [w2 EXCEPT !.srv.peers = Append(@, c)])

\* ServerLoop.__on_accept__: accept until the socket would block
RECURSIVE AcceptAll(_)
AcceptAll(w_) ==
    Then(w_, LAMBDA w :
        IF w.srv.backlog = <<>>
        THEN w
        ELSE AcceptAll(Peer__init__([w EXCEPT !.srv.backlog = Tail(@)],
                                    Head(w.srv.backlog))))

\* `except Exception: self.__on_error__("critical error accepting ...")'
AcceptExcept(w_) ==
    Then(w_, LAMBDA w :
        IF w.exc # NoExc
        THEN BaseLoop__on_error__([w EXCEPT !.exc = NoExc], "srv")
        ELSE w)

ServerLoop__on_accept__(w) == AcceptExcept(AcceptAll(w))

\* ---------------------------------------------------------------- Overwatch

\* loop.start(): the call returns in a later step, see InnerReturn
LoopStart(l) == [l EXCEPT !.depth = 1, !.brk = FALSE]

BlockOverwatch_skipped(w, c) == w

\* self._overwatch_.stop() in __block__
BlockOverwatch(w, c) == [w EXCEPT !.conn[c].overwatch = FALSE]

__block__(w_, c) ==
    Then(w_, LAMBDA w :
        LET w1 == BlockOverwatch(w, c)
        IN  [w1 EXCEPT !.conn[c].loop = LoopStart(@)])

__unblock___restart_only(w, c) == [w EXCEPT !.conn[c].overwatch = TRUE]

__unblock__(w, c) ==
    [w EXCEPT !.conn[c].loop = LoopBreak(@),
              !.conn[c].overwatch = TRUE]

\* ---------------------------------------------------------------- Client

Client_wait(w, c) == read(w, c, 1, "Client.__on_len__")

Client__on_len__(w, c, buf) == read(w, c, buf[1], "Client.__on_size__")

Client__on_size__(w, c, buf) == read(w, c, size(buf), "Client.__on_result__")

Client__on_result___drops(w_, c, buf) == __unblock__(w_, c)

\* try: self._result_ = unpack(buf); except Exception as err:
\* self._result_ = err; finally: self.__unblock__()
Client__on_result__(w_, c, buf) ==
    Then(w_, LAMBDA w :
        LET u == unpack(buf, "cli")
            w1 == [w EXCEPT !.cli.result = IF u.ok THEN u.v ELSE u.err]
        IN  __unblock__(w1, c))

\* Attribute.__getattr__ / Client.__getattr__: extend the dotted name
Attribute(name, part) == Append(name, part)

Sentinel_stale(w) == w

\* self._result_ = RequestError()
Sentinel(w) == [w EXCEPT !.cli.result = Err("RequestError", <<>>)]

\* the first half of Client.__on_request__, up to the point where
\* __block__ has started the inner loop
Client__on_request__(w_, c, name, args, kwargs) ==
    Then(w_, LAMBDA w :
        LET w1 == Sentinel(w)
            e == encode(Req(name, args, kwargs), "cli")
            w2 == IF e.ok THEN write(w1, c, e.buf, "Client.wait")
                  ELSE Raise(w1, e.err)
        IN  IF w2.exc # NoExc THEN w2 ELSE __block__(w2, c))

\* the second half: the inner loop has returned
Outcome_return(result) == <<"return", result>>

Outcome(result) ==
    IF IsError(result) THEN <<"raise", result>> ELSE <<"return", result>>

RpcInvoke(w, c, cb, args) ==
    CASE cb = "Peer.wait" -> Peer_wait(Heard(w, c, "wait", <<>>), c)
      [] cb = "Peer.__on_len__" -> Peer__on_len__(w, c, args[1])
      [] cb = "Peer.__on_size__" -> Peer__on_size__(w, c, args[1])
      [] cb = "Peer.__on_request__" -> Peer__on_request__(w, c, args[1])
      [] cb = "ServerLoop.__on_close__" -> ServerLoop__on_close__(w, args[1])
      [] cb = "Client.wait" -> Client_wait(w, c)
      [] cb = "Client.__on_len__" -> Client__on_len__(w, c, args[1])
      [] cb = "Client.__on_size__" -> Client__on_size__(w, c, args[1])
      [] cb = "Client.__on_result__" -> Client__on_result__(w, c, args[1])
      [] cb = "ClientLoop.stop" -> stop(w, "cli")

\* ---------------------------------------------------------------- ConnSpec
\* One plain Connection "k" driven by arbitrary user code and by arbitrary
\* socket behaviour.

K == "k"

OnCloseChoices == {None, "cl", "boom"}

ReadOutcomes(c) ==
    {<<"block">>, <<"fail">>} \cup
    {<<"ok", k>> : k \in (IF sock[c].eof THEN 0 ELSE 1)..Len(sock[c].inq)}

WriteOutcomes(c) ==
    {<<"block">>, <<"fail">>} \cup
    (IF conn[c].wtasks = <<>> THEN {}
     ELSE {<<"ok", k>> : k \in 1..Len(Head(conn[c].wtasks)[1])})

OkReads(c) == {o \in ReadOutcomes(c) : o[1] = "ok"}

OkWrites(c) == {o \in WriteOutcomes(c) : o[1] = "ok"}

Entry == [World EXCEPT !.exc = NoExc]

WithinBounds(w) == w.ghost[K].nread + w.ghost[K].nwrite <= MaxTickets

\* The calls user code makes from outside any callback: <<size, callback>>.
ReadMenu == {<<0, "nop">>, <<1, "nop">>, <<2, "nop">>, <<1, "rd">>,
             <<1, "wr">>, <<1, "boom">>, <<1, "cl">>}

WriteMenu == {<<0, "nop">>, <<1, None>>, <<2, "nop">>, <<1, "wr">>,
              <<1, "rd">>, <<1, "boom">>}

\* a step that stays within the bound on the number of reads and writes
Bounded(w) == \E v \in {w} : WithinBounds(v) /\ Becomes(v)

ConnInit ==
    /\ \E oc \in OnCloseChoices :
           conn = (K :> NewConnection("Connection", oc))
    /\ sock = (K :> NewSocket([i \in 1..MaxBytes |-> i], None))
    /\ ghost = (K :> NewGhost)
    /\ srv = None
    /\ cli = None
    /\ exc = NoExc

UserRead ==
    \E m \in ReadMenu :
        Bounded(read(Entry, K, m[1], m[2]))

UserWrite ==
    \E m \in WriteMenu :
        Bounded(write(Entry, K, [i \in 1..m[1] |-> 0], m[2]))

UserClose ==
    \E notify \in BOOLEAN :
        Bounded(close(Entry, K, notify))

ReaderEvent ==
    /\ conn[K].reader
    /\ \E out \in ReadOutcomes(K) :
           Bounded(__on_read__(Entry, K, out))

WriterEvent ==
    /\ conn[K].writer
    /\ \E out \in WriteOutcomes(K) :
           Bounded(__on_write__(Entry, K, out))

PeerClose ==
    /\ ~sock[K].eof
    /\ sock' = [sock EXCEPT ![K].eof = TRUE]
    /\ UNCHANGED <<conn, ghost, exc, srv, cli>>

ConnNext ==
    \/ UserRead
    \/ UserWrite
    \/ UserClose
    \/ ReaderEvent
    \/ WriterEvent
    \/ PeerClose

ConnSpec == ConnInit /\ [][ConnNext]_vars

\* a writer watcher that stays ready gets its callback run with the socket
\* accepting at least one byte
WriterOk ==
    /\ conn[K].writer
    /\ \E out \in OkWrites(K) :
           Bounded(__on_write__(Entry, K, out))

\* the write side alone: user code that writes and closes, the writer
\* watcher, and fair writer readiness
DrainNext ==
    \/ UserWrite
    \/ UserClose
    \/ WriterEvent

DrainSpec == ConnInit /\ [][DrainNext]_vars /\ WF_vars(WriterOk)


\* ---------------------------------------------------------------- Spec
\* A ServerLoop and a ClientLoop, both started; the client "c" is connected
\* and its connection waits in the server's backlog as socket "p".

C == "c"
P == "p"
Q == "q"

NewLoop(watchers) ==
    [depth |-> 1, brk |-> FALSE, stopping |-> FALSE, stops |-> 0,
     watchers |-> watchers,
     active |-> {watchers[i] : i \in 1..Len(watchers)}]

NewClient_unhooked ==
    [NewConnection("Client", None) EXCEPT !.overwatch = TRUE]

\* ClientLoop.setup: Client(name, self._loop_, on_close=self.stop, ...)
NewClient ==
    [NewConnection("Client", "ClientLoop.stop") EXCEPT !.overwatch = TRUE]

\* Both loops have been started; `backlog' holds the connections waiting
\* to be accepted on the listening socket.  P is the server's end of the
\* client's connection, any other is the end of a connection whose far end
\* stays silent.  srv.trace records, in order, the peers stopping() closes,
\* the close of the listening socket and the peers __on_close__ is invoked
\* for.
InitWith(backlog) ==
    /\ conn = (C :> NewClient)
    /\ sock = [c \in {C} \cup {backlog[i] : i \in 1..Len(backlog)} |->
                 IF c = C THEN NewSocket(<<>>, P)
                 ELSE IF c = P THEN NewSocket(<<>>, C)
                 ELSE NewSocket(<<>>, None)]
    /\ ghost = [c \in {C} \cup {backlog[i] : i \in 1..Len(backlog)} |->
                  NewGhost]
    /\ exc = NoExc
    /\ srv = NewLoop(<<"SIGINT", "SIGTERM", "accept">>)
             @@ [lsock_closed |-> FALSE, backlog |-> backlog, peers |-> <<>>,
                 methods |-> ServerLoop__init__, log |-> <<>>, trace |-> <<>>,
                 heard |-> <<>>]
    /\ cli = NewLoop(<<"SIGINT", "SIGTERM">>)
             @@ [client |-> C, pc |-> "idle", calls |-> 0, name |-> Nil,
                 result |-> Nil, outcome |-> Nil]

Init == InitWith(<<P>>)

Peers == DOMAIN conn \ {C}

\* watchers that keep a loop running
SrvActive(w) ==
    \/ w.srv.active # {}
    \/ \E p \in DOMAIN w.conn \ {C} : w.conn[p].reader \/ w.conn[p].writer

CliActive(w) == w.cli.active # {} \/ w.conn[C].overwatch

InnerActive(w) == w.conn[C].reader \/ w.conn[C].writer

\* The per-connection history `ghost' is recorded for the connection-level
\* properties under ConnSpec only; here it keeps its initial value and the
\* history of the RPC layer is srv.log and cli.outcome.
Settles(w) == Becomes([w EXCEPT !.ghost = ghost])

\* -- server side

Accept ==
    /\ Running(srv)
    /\ "accept" \in srv.active
    /\ srv.backlog # <<>>
    /\ Settles(ServerLoop__on_accept__(Entry))

PeerReaderWith(p, outs) ==
    /\ Running(srv)
    /\ conn[p].reader
    /\ \E out \in outs : Settles(__on_read__(Entry, p, out))

PeerWriterWith(p, outs) ==
    /\ Running(srv)
    /\ conn[p].writer
    /\ \E out \in outs : Settles(__on_write__(Entry, p, out))

PeerReader == \E p \in Peers : PeerReaderWith(p, ReadOutcomes(p))

PeerWriter == \E p \in Peers : PeerWriterWith(p, WriteOutcomes(p))

\* SIGINT or SIGTERM: the signal watchers call stop
SrvSignal ==
    /\ Running(srv)
    /\ srv.active \cap {"SIGINT", "SIGTERM"} # {}
    /\ Settles(stop(Entry, "srv"))

\* `while self._loop_.start(): pass': the loop returns after a break (or
\* when nothing is left to watch) and is entered again if watchers are
\* still active
LoopReturn(l, again) ==
    IF again THEN [l EXCEPT !.brk = FALSE]
    ELSE [l EXCEPT !.brk = FALSE, !.depth = 0]

SrvLoopReturn ==
    /\ srv.depth > 0
    /\ srv.brk \/ ~SrvActive(World)
    /\ srv' = LoopReturn(srv, SrvActive(World))
    /\ UNCHANGED <<conn, sock, ghost, exc, cli>>

\* -- client side

\* Client.__on_request__ has raised before blocking, or is blocked
Called(w_) ==
    Then(w_, LAMBDA w :
        IF w.exc # NoExc
        THEN [w EXCEPT !.cli.outcome = <<"raise", w.exc>>]
        ELSE [w EXCEPT !.cli.pc = "blocked"])

Call ==
    /\ cli.depth > 0
    /\ cli.pc = "idle"
    /\ cli.calls < MaxCalls
    /\ \E i \in 1..Len(ReqNames) :
          LET name == ReqNames[i]
              w0 == [Entry EXCEPT !.cli.calls = @ + 1, !.cli.name = name,
                                  !.cli.outcome = Nil]
              w1 == Client__on_request__(w0, C, name, CallArgs(name), <<>>)
          IN  Settles(Called(w1))

InnerReaderWith(outs) ==
    /\ cli.pc = "blocked"
    /\ Running(conn[C].loop)
    /\ conn[C].reader
    /\ \E out \in outs : Settles(__on_read__(Entry, C, out))

InnerWriterWith(outs) ==
    /\ cli.pc = "blocked"
    /\ Running(conn[C].loop)
    /\ conn[C].writer
    /\ \E out \in outs : Settles(__on_write__(Entry, C, out))

InnerReader == InnerReaderWith(ReadOutcomes(C))

InnerWriter == InnerWriterWith(WriteOutcomes(C))

\* self._loop_.start() in __block__ returns, and Client.__on_request__
\* hands the result to its caller
InnerReturn ==
    /\ cli.pc = "blocked"
    /\ conn[C].loop.brk \/ ~InnerActive(World)
    /\ conn' = [conn EXCEPT ![C].loop = LoopReturn(@, FALSE)]
    /\ cli' = [cli EXCEPT !.pc = "idle", !.outcome = Outcome(cli.result)]
    /\ exc' = IF IsError(cli.result) THEN cli.result ELSE NoExc
    /\ UNCHANGED <<sock, ghost, srv>>

\* the overwatch watcher on the outer loop
OverwatchEvent ==
    /\ Running(cli)
    /\ cli.pc = "idle"
    /\ conn[C].overwatch
    /\ \E out \in ReadOutcomes(C) : Settles(__on_read__(Entry, C, out))

CliSignal ==
    /\ Running(cli)
    /\ cli.pc = "idle"
    /\ cli.active \cap {"SIGINT", "SIGTERM"} # {}
    /\ Settles(stop(Entry, "cli"))

\* user code running in a callback of the ClientLoop (the code that makes
\* the calls) calls stop() itself when a call has raised
UserStop ==
    /\ cli.depth > 0
    /\ cli.pc = "idle"
    /\ cli.outcome # Nil /\ cli.outcome[1] = "raise"
    /\ cli.stops < MaxStops
    /\ Settles(stop(Entry, "cli"))

CliLoopReturn ==
    /\ cli.depth > 0
    /\ cli.pc = "idle"
    /\ cli.brk \/ ~CliActive(World)
    /\ cli' = LoopReturn(cli, CliActive(World))
    /\ UNCHANGED <<conn, sock, ghost, exc, srv>>

Next ==
    \/ Accept
    \/ PeerReader
    \/ PeerWriter
    \/ SrvSignal
    \/ SrvLoopReturn
    \/ Call
    \/ InnerReader
    \/ InnerWriter
    \/ InnerReturn
    \/ OverwatchEvent
    \/ CliSignal
    \/ CliLoopReturn

Spec == Init /\ [][Next]_vars

\* the same server with a second connection waiting to be accepted
PeersInit == InitWith(<<P, Q>>)

PeersSpec == PeersInit /\ [][Next]_vars

\* the same programs with user code that also calls stop()
StopNext == Next \/ UserStop

StopSpec == Init /\ [][StopNext]_vars

\* ---------------------------------------------------------------- StartSpec
\* The same two programs from before start(): both loops are constructed,
\* nothing is registered, the client object does not exist yet.  `started'
\* counts the runs of the starting() hook and `failed' says it raised.

\* starting() is a hook of the subclass: it returns or it raises
Hooks == {"return", "raise"}

\* BaseLoop.__setup__: the prepare watcher first, then the signal watchers,
\* then what setup() of the subclass registers or creates
__setup__(w_, who) ==
    Then(w_, LAMBDA w :
        LET base == <<"prepare", "SIGINT", "SIGTERM">>
        IN  IF who = "srv"
            THEN [w EXCEPT !.srv.watchers = @ \o base \o <<"accept">>]
            ELSE [w EXCEPT !.cli.watchers = @ \o base,
                           !.cli.client = C,
                           !.conn = (C :> NewClient) @@ @,
                           !.srv.backlog = Append(@, P)])

\* `for watcher in self._watchers_: watcher.start()' and the entry into
\* the loop
StartWatchers(w_, who) ==
    Then(w_, LAMBDA w :
        [w EXCEPT ![who].active =
                      {w[who].watchers[i] : i \in 1..Len(w[who].watchers)},
                  ![who].depth = 1,
                  ![who].brk = FALSE])

\* BaseLoop.start
start(w, who) ==
    IF stopped(w, who) THEN StartWatchers(__setup__(w, who), who) ELSE w

Without(s, x) == SelectSeq(s, LAMBDA y : y # x)

StarterStop_forgotten(w, who) == w

\* `watcher.stop(); self._watchers_.remove(watcher)'
StarterStop(w, who) ==
    [w EXCEPT ![who].active = @ \ {"prepare"},
              ![who].watchers = Without(@, "prepare")]

\* `except Exception: self.__on_error__("error while starting")'
StarterExcept(w, who) == BaseLoop__on_error__(w, who)

\* BaseLoop.__starter__
__starter__(w_, who, hook) ==
    Then(w_, LAMBDA w :
        LET w1 == StarterStop(w, who)
            w2 == [w1 EXCEPT ![who].started = @ + 1,
                             ![who].failed = (hook = "raise")]
        IN  IF hook = "raise" THEN StarterExcept(w2, who) ELSE w2)

Constructed(l) ==
    [l EXCEPT !.depth = 0, !.watchers = <<>>, !.active = {}]
    @@ [started |-> 0, failed |-> FALSE]

StartInit ==
    /\ conn = [c \in {} |-> NewClient]
    /\ sock = (C :> NewSocket(<<>>, P)) @@ (P :> NewSocket(<<>>, C))
    /\ ghost = [c \in {C, P} |-> NewGhost]
    /\ exc = NoExc
    /\ srv = Constructed(NewLoop(<<>>))
             @@ [lsock_closed |-> FALSE, backlog |-> <<>>, peers |-> <<>>,
                 methods |-> ServerLoop__init__, log |-> <<>>, trace |-> <<>>,
                 heard |-> <<>>]
    /\ cli = Constructed(NewLoop(<<>>))
             @@ [client |-> None, pc |-> "idle", calls |-> 0, name |-> Nil,
                 result |-> Nil, outcome |-> Nil]

\* the program calls start() on its loop, once; the client is started
\* when the server listens
StartSrv ==
    /\ srv.started = 0
    /\ srv.watchers = <<>>
    /\ Settles(start(Entry, "srv"))

StartCli ==
    /\ cli.started = 0
    /\ cli.watchers = <<>>
    /\ "accept" \in srv.active
    /\ Settles(start(Entry, "cli"))

\* the prepare watcher: libev runs the active prepare watchers of a loop
\* before it waits for events
SrvStarter ==
    /\ Running(srv)
    /\ "prepare" \in srv.active
    /\ \E hook \in Hooks : Settles(__starter__(Entry, "srv", hook))

CliStarter ==
    /\ Running(cli)
    /\ "prepare" \in cli.active
    /\ \E hook \in Hooks : Settles(__starter__(Entry, "cli", hook))

\* no prepare watcher is waiting to run
Prepared == "prepare" \notin srv.active \cup cli.active

StartNext ==
    \/ StartSrv
    \/ StartCli
    \/ SrvStarter
    \/ CliStarter
    \/ Prepared /\ Accept
    \/ Prepared /\ PeerReader
    \/ Prepared /\ PeerWriter
    \/ Prepared /\ SrvSignal
    \/ Prepared /\ SrvLoopReturn
    \/ Prepared /\ Call
    \/ Prepared /\ InnerReader
    \/ Prepared /\ InnerWriter
    \/ Prepared /\ InnerReturn
    \/ Prepared /\ OverwatchEvent
    \/ Prepared /\ CliSignal
    \/ Prepared /\ CliLoopReturn

StartSpec ==
    /\ StartInit
    /\ [][StartNext]_vars
    /\ WF_vars(SrvStarter)
    /\ WF_vars(CliStarter)

\* ---------------------------------------------------------------- WireSpec
\* A started ServerLoop and one connection "q" that waits to be accepted;
\* its far end is a program of the environment, which has sent a stream of
\* bytes (sock[Q].inq, kept in sock[Q].far) and may close its end.  How
\* much of the stream each reader event finds is for ReadOutcomes to
\* choose, so every split of the stream into chunks is a behaviour.

MaxFrames == 2  \* pieces in the stream the far end sends

FrameOf(name) == encode(Req(name, CallArgs(name), <<>>), "cli").buf

\* What the far end strings together: the frames of two requests of the
\* client, a frame with an undecodable payload, a frame whose size takes two
\* bytes, a length byte of 0, a frame of size 0, and the head of a frame.
Pieces ==
    { FrameOf(<<"echo">>), FrameOf(<<"die">>), <<1, 1, 0>>,
      <<2, 2, 0, 1, 2>>, <<0>>, <<1, 0>>, <<1, 2, 1>> }

RECURSIVE StreamsOf(_)
StreamsOf(n) ==
    IF n = 0 THEN {<<>>}
    ELSE LET shorter == StreamsOf(n - 1)
         IN  shorter \cup {s \o p : s \in shorter, p \in Pieces}

WireInit ==
    /\ conn = [c \in {} |-> NewPeer]
    /\ \E s \in StreamsOf(MaxFrames) :
           sock = (Q :> (NewSocket(s, None) @@ [far |-> s]))
    /\ ghost = (Q :> NewGhost)
    /\ exc = NoExc
    /\ srv = NewLoop(<<"SIGINT", "SIGTERM", "accept">>)
             @@ [lsock_closed |-> FALSE, backlog |-> <<Q>>, peers |-> <<>>,
                 methods |-> ServerLoop__init__, log |-> <<>>, trace |-> <<>>,
                 heard |-> <<>>]
    /\ cli = None

\* the far end closes its end of the connection
FarClose ==
    /\ ~sock[Q].eof
    /\ sock' = [sock EXCEPT ![Q].eof = TRUE]
    /\ UNCHANGED <<conn, ghost, exc, srv, cli>>

WireNext ==
    \/ Accept
    \/ PeerReader
    \/ PeerWriter
    \/ SrvSignal
    \/ SrvLoopReturn
    \/ FarClose

WireSpec == WireInit /\ [][WireNext]_vars

\* -- fair delivery of readiness events: a watcher that stays ready gets
\* its callback run with the socket making progress, and a loop that has
\* been told to break returns

PeerReaderOk == \E p \in Peers : PeerReaderWith(p, OkReads(p))

PeerWriterOk == \E p \in Peers : PeerWriterWith(p, OkWrites(p))

InnerReaderOk == InnerReaderWith(OkReads(C))

InnerWriterOk == InnerWriterWith(OkWrites(C))

FairSpec ==
    /\ Spec
    /\ WF_vars(Accept)
    /\ WF_vars(PeerReaderOk)
    /\ WF_vars(PeerWriterOk)
    /\ WF_vars(InnerReaderOk)
    /\ WF_vars(InnerWriterOk)
    /\ WF_vars(InnerReturn)
    /\ WF_vars(CliLoopReturn)

\* ---------------------------------------------------------------- claims

TornDown(c) ==
    /\ sock[c].closed
    /\ ~conn[c].reader /\ ~conn[c].writer
    /\ conn[c].rtasks = <<>> /\ conn[c].wtasks = <<>> /\ conn[c].rbuf = <<>>

\* C1: however many times close() is called on a connection, with whatever
\* notify values, from user code, from inside on_close or through
\* __on_error__, the teardown is performed exactly once and on_close is
\* invoked at most once.
C1_IdempotentClose ==
    \A c \in DOMAIN conn :
        /\ ghost[c].teardowns <= 1
        /\ Len(ghost[c].clog) <= 1
        /\ ghost[c].closes >= 1 => ghost[c].teardowns = 1 /\ TornDown(c)

\* close() was called at least twice and on_close ran
C1_Witness ==
    /\ ghost[K].closes = 2
    /\ ghost[K].teardowns = 1
    /\ Len(ghost[K].clog) = 1

Started(c, p) == {ghost[c].rlog[q].tk : q \in 1..(p - 1)}

\* C2 as stated: whenever the callback of a read starts, the callback of
\* every read issued before it has started and has completed.
C2_CompletesBeforeNextStarts ==
    \A c \in DOMAIN conn :
        \A p \in 1..Len(ghost[c].rlog) :
            \A i \in 1..(ghost[c].rlog[p].tk - 1) :
                i \in Started(c, p) /\ i \notin ghost[c].rlog[p].inside

\* C2 amended: whenever the callback of a read starts, the callback of
\* every read issued before it has started; it has also completed whenever
\* the later read went through the read queue.  (A read issued from inside
\* a callback and served from the buffer runs its callback inside it.)
C2_QueuedReadsDoNotNest ==
    \A c \in DOMAIN conn :
        \A p \in 1..Len(ghost[c].rlog) :
            \A i \in 1..(ghost[c].rlog[p].tk - 1) :
                /\ i \in Started(c, p)
                /\ ghost[c].rlog[p].tk \in ghost[c].queued
                       => i \notin ghost[c].rlog[p].inside

\* a callback issued a read that had to be queued, and that read's callback
\* has run as well (after the first one returned)
C2_Witness ==
    \E p \in 2..Len(ghost[K].rlog) :
        /\ ghost[K].rlog[p].tk \in ghost[K].queued
        /\ ghost[K].rlog[p - 1].tk \notin ghost[K].queued
        /\ ghost[K].rlog[p].inside = {}

\* C3: the callbacks of the reads of one connection start in the order the
\* reads were issued, none skipped: the p-th callback to start belongs to
\* the p-th read issued.
C3_ReadStartOrder ==
    \A c \in DOMAIN conn :
        \A p \in 1..Len(ghost[c].rlog) : ghost[c].rlog[p].tk = p

\* a callback issued two reads: the first is waiting for more bytes, the
\* second waits behind it although the buffer holds what it needs
C3_Witness ==
    /\ Len(ghost[K].rlog) = 1
    /\ Len(conn[K].rtasks) = 2
    /\ Len(conn[K].rbuf) < conn[K].rtasks[1][1]
    /\ Len(conn[K].rbuf) >= conn[K].rtasks[2][1]

\* C4: write completion callbacks fire in the order the writes were
\* enqueued, each after the socket has accepted every byte handed to
\* write() up to and including its own buffer.
C4_WriteCompletionOrder ==
    \A c \in DOMAIN conn :
        \A p \in 1..Len(ghost[c].wlog) :
            /\ \A q \in 1..(p - 1) : ghost[c].wlog[q].tk < ghost[c].wlog[p].tk
            /\ ghost[c].wlog[p].sent >= ghost[c].wcum[ghost[c].wlog[p].tk]

\* two completions, the second for a write enqueued by the first callback
\* or behind a buffer that took several writer events
C4_Witness ==
    /\ Len(ghost[K].wlog) = 2
    /\ ghost[K].sent = 3

\* C5: between watcher callbacks the writer watcher is active exactly when
\* the write queue is not empty.
C5_WriterActiveIffPending ==
    \A c \in DOMAIN conn : conn[c].writer <=> (conn[c].wtasks # <<>>)

\* a completion callback has run and a write is pending again
C5_Witness ==
    /\ ghost[K].wlog # <<>>
    /\ conn[K].writer
    /\ conn[K].wtasks # <<>>

\* ---------------------------------------------------------------- RPC claims

RequestError == Err("RequestError", <<>>)

\* the client call in progress is inside __block__
Blocked == cli.pc = "blocked"

\* C6 as stated: from the moment __block__ has started the inner loop
\* until the inner loop has returned, the overwatch watcher is not active.
C6_QuietUntilInnerLoopReturns == Blocked => ~conn[C].overwatch

\* C6: while a client call is blocked and neither __unblock__ nor close
\* has been invoked, the overwatch watcher is not active.  (__unblock__
\* restarts the watcher from inside the inner loop's callback, right after
\* asking the inner loop to break and so before the inner loop returns.)
C6_QuietUntilUnblock == Blocked /\ conn[C].overwatch => conn[C].loop.brk

\* the call is blocked, the inner loop is running, the response bytes are
\* readable on the client socket and the overwatch watcher is stopped
C6_Witness ==
    /\ Blocked
    /\ Running(conn[C].loop)
    /\ sock[C].inq # <<>>
    /\ ~conn[C].overwatch

\* __unblock__ (only __on_result__ calls it) or close has been invoked
\* during the current __block__
C7_Released == Blocked /\ (cli.result # RequestError \/ sock[C].closed)

\* __block__ has returned; the inner loop is stopped and, unless the
\* connection is closed, the overwatch watcher is active again
C7_Idle ==
    /\ cli.pc = "idle"
    /\ conn[C].loop.depth = 0 /\ ~conn[C].loop.brk
    /\ ~sock[C].closed => conn[C].overwatch

\* C7: once __unblock__ or close has been invoked during a __block__, the
\* __block__ eventually returns with the inner loop stopped and, when the
\* connection is still open, the overwatch watcher active on the outer loop.
C7_BlockReturns == C7_Released ~> C7_Idle

\* a call has returned its result through __unblock__ and the connection
\* is open and idle again
C7_Witness ==
    /\ C7_Idle
    /\ cli.calls >= 1
    /\ cli.outcome # Nil /\ cli.outcome[2] # RequestError
    /\ ~sock[C].closed

\* what the method the current call names returns
C8_Value == Apply(Lookup(srv.methods, cli.name), CallArgs(cli.name), <<>>).v

\* the name of the current call is in the dispatch table, the method found
\* there returns normally when given the arguments of the call, and the
\* request and the returned value are of types both processes have
\* registered with the codec
C8_Normal ==
    /\ HasKey(srv.methods, cli.name)
    /\ ~Apply(Lookup(srv.methods, cli.name), CallArgs(cli.name), <<>>).raised
    /\ Registered(Req(cli.name, CallArgs(cli.name), <<>>), "srv")
    /\ Registered(C8_Value, "srv") /\ Registered(C8_Value, "cli")

\* an endpoint has closed or the server has stopped
Broken == sock[C].closed \/ sock[P].closed \/ srv.lsock_closed

\* the current call is over and both endpoints are still up
Settled == cli.pc = "idle" /\ cli.outcome # Nil /\ ~Broken

\* C8 as stated: a call to a registered name whose method returns normally
\* returns to the caller exactly the value the method returned.
C8_ReturnsTheValue ==
    Settled /\ C8_Normal => cli.outcome = <<"return", C8_Value>>

C8_ReturnsOrRaises ==
    Settled /\ C8_Normal =>
        cli.outcome = IF IsError(C8_Value)
                      THEN <<"raise", C8_Value>>
                      ELSE <<"return", C8_Value>>

\* C8: under fair delivery of readiness events a call to a registered name
\* whose method returns normally a value the codec of both processes knows
\* ends, unless an endpoint closes or the
\* server stops; with both endpoints up it returns to the caller exactly
\* the value the method returned when that value is not an exception
\* instance, and raises that value in the caller when it is one.
C8_CallEndsWithTheValue ==
    /\ []C8_ReturnsOrRaises
    /\ (Blocked /\ C8_Normal) ~> (Settled \/ Broken)

\* echo("hello") has returned "hello" to the caller
C8_Witness ==
    /\ Settled
    /\ cli.name = <<"echo">>
    /\ cli.outcome = <<"return", Val("hello")>>

\* the attributes of a service that are public: no leading underscore,
\* callable, carrying the public marker
C9_Public(service) ==
    {service[i] : i \in {j \in 1..Len(service) :
                            /\ service[j].name \notin Underscored
                            /\ service[j].callable
                            /\ service[j].public}}

\* <<request name, method>> for every public method of every service
C9_Table ==
    {<< <<a.name>>, <<"", a.name>> >> : a \in C9_Public(RootService)}
    \cup UNION {{<< <<Services[k].key, a.name>>,
                    <<Services[k].key, a.name>> >> :
                        a \in C9_Public(Services[k].value)} :
                k \in 1..Len(Services)}

C9_Names == {t[1] : t \in C9_Table}

\* C9: a request named "<prefix>.m" ("m" for the root service) for a public
\* method m of a registered service calls exactly that method; a request
\* with any other name calls no method, its response is the AttributeError
\* "no method '<name>'", and the caller gets that error.
C9_DispatchByName ==
    /\ \A i \in 1..Len(srv.log) :
          srv.log[i].name # Nil =>
              IF srv.log[i].name \in C9_Names
              THEN <<srv.log[i].name, srv.log[i].method>> \in C9_Table
              ELSE /\ srv.log[i].method = Nil
                   /\ srv.log[i].response = NoMethod(srv.log[i].name)
    /\ Settled /\ cli.name \notin C9_Names =>
          cli.outcome = <<"raise", NoMethod(cli.name)>>

\* math.add was asked for and MathService's add was called
C9_Witness ==
    \E i \in 1..Len(srv.log) :
        /\ srv.log[i].name = <<"math", "add">>
        /\ srv.log[i].method = <<"math", "add">>
        /\ srv.log[i].response = Val("5")

\* C10 as stated: when a dispatched method raises an exception other than
\* CriticalError, that same exception is the value encoded into the
\* response.
C10_RaisedIsTheResponse ==
    \A i \in 1..Len(srv.log) :
        /\ srv.log[i].method # Nil
        /\ srv.log[i].raised # NoExc
        /\ srv.log[i].raised[2] # "CriticalError"
        => srv.log[i].response = srv.log[i].raised

\* request i was answered by a handler raising CriticalError
C11_Critical(i) ==
    /\ srv.log[i].raised # NoExc
    /\ srv.log[i].raised[2] = "CriticalError"

\* stop() has run on the server loop: its registered watchers are stopped,
\* the stopping() hook has closed every peer and the listening socket, and
\* the loop has been asked to break or has already returned
C11_Stopped ==
    /\ srv.stops >= 1
    /\ srv.watchers = <<>> /\ srv.active = {}
    /\ srv.peers = <<>> /\ srv.lsock_closed
    /\ \A p \in Peers : sock[p].closed /\ ~conn[p].reader /\ ~conn[p].writer
    /\ srv.brk \/ srv.depth = 0

\* C11: a handler raising CriticalError stops the server loop (registered
\* watchers stopped, stopping() hook run, loop broken), it is the last
\* request the server handles, and no response frame is written to the peer
\* that sent it: nothing is encoded, nothing is queued for writing, nothing
\* is in flight to the client and the client has no result.
C11_CriticalStopsServer ==
    \A i \in 1..Len(srv.log) :
        C11_Critical(i) =>
            /\ C11_Stopped
            /\ i = Len(srv.log)
            /\ srv.log[i].response = Nil
            /\ \A p \in Peers : conn[p].wtasks = <<>>
            /\ sock[C].inq = <<>>
            /\ cli.result = RequestError

\* die() raised CriticalError, the server loop has returned and the call
\* has ended in the client
C11_Witness ==
    /\ srv.log # <<>> /\ C11_Critical(Len(srv.log))
    /\ srv.depth = 0
    /\ cli.pc = "idle" /\ cli.outcome = <<"raise", RequestError>>

\* the client connection has closed during a call that has enqueued its
\* request, and no response value has been stored in _result_
C12_Lost ==
    /\ Blocked
    /\ sock[C].closed
    /\ cli.result = Nil \/ cli.result = RequestError

\* the call has ended by raising RequestError in the caller
C12_Raised == cli.pc = "idle" /\ cli.outcome = <<"raise", RequestError>>

\* C12: when the client connection closes after a call has enqueued its
\* request and before a response value has been delivered, the call stays
\* without a result until __block__ returns, __block__ does return, and the
\* call then raises RequestError: it never hangs and never returns a value.
C12_LostCallRaises ==
    /\ [][C12_Lost => (C12_Lost' /\ cli'.outcome = Nil) \/ C12_Raised']_vars
    /\ C12_Lost ~> C12_Raised

\* the peer closed the connection while the call was waiting for the
\* response to a request the server never answered, and the call has raised
C12_Witness ==
    /\ C12_Raised
    /\ sock[C].closed /\ sock[C].eof
    /\ srv.log # <<>> /\ srv.log[Len(srv.log)].response = Nil

\* what unpack gives the client for the payload of the last response the
\* server encoded
C13_Decoded == unpack(Payload(srv.log[Len(srv.log)].response), "cli")

\* the call has ended on an open connection, so through __on_result__, and
\* the response payload it received was one the client cannot decode
C13_Undecodable ==
    /\ cli.pc = "idle" /\ cli.outcome # Nil
    /\ ~sock[C].closed
    /\ srv.log # <<>> /\ srv.log[Len(srv.log)].response # Nil
    /\ ~C13_Decoded.ok

\* C13 as stated: when the response payload cannot be decoded by the
\* client, the call raises RequestError.
C13_UndecodableRaisesRequestError ==
    C13_Undecodable => cli.outcome = <<"raise", RequestError>>

\* C13: when the response payload cannot be decoded by the client, the call
\* raises the exception unpack raised, which is not a RequestError.
C13_UndecodableRaisesDecodeError ==
    C13_Undecodable =>
        /\ cli.outcome = <<"raise", C13_Decoded.err>>
        /\ C13_Decoded.err # RequestError

\* exotic() returned a value of a type only the server has registered and
\* the call has raised in the client
C13_Witness ==
    /\ C13_Undecodable
    /\ cli.name = <<"exotic">>
    /\ cli.outcome[1] = "raise"

\* request i could not be decoded: unpack raised, or what it gave was not
\* a (name, args, kwargs) triple
C14_DecodeFailed(i) == srv.log[i].name = Nil

\* the result of request i could not be encoded
C14_EncodeFailed(i) == srv.log[i].response = Nil /\ ~C11_Critical(i)

\* request i went through the critical error path: the server loop was
\* stopped, nothing was encoded or queued for the peer and no later request
\* was handled
C14_TreatedAsCritical(i) ==
    /\ C11_Stopped
    /\ i = Len(srv.log)
    /\ srv.log[i].response = Nil
    /\ \A p \in Peers : conn[p].wtasks = <<>>

\* C14 as stated: a failure of encoding the response or of decoding the
\* request is treated as critical and stops the server loop.
C14_FramingFailureIsCritical ==
    \A i \in 1..Len(srv.log) :
        C14_DecodeFailed(i) \/ C14_EncodeFailed(i) => C14_TreatedAsCritical(i)

\* the step handles a request that cannot be decoded
C14_DecodeFailure ==
    /\ Len(srv'.log) = Len(srv.log) + 1
    /\ srv'.log[Len(srv'.log)].name = Nil

\* C14: on the server a failure of encoding the response is treated as
\* critical and stops the server loop, while a failure of decoding the
\* request is an ordinary one: the decoding exception is encoded as the
\* response value, the response is queued for the peer unless the peer
\* closed in the same step, and the server loop is not stopped by it.
C14_OnlyEncodingIsCritical ==
    /\ [](\A i \in 1..Len(srv.log) :
            /\ C14_EncodeFailed(i) => C14_TreatedAsCritical(i)
            /\ C14_DecodeFailed(i) =>
                  /\ IsError(srv.log[i].response)
                  /\ srv.log[i].response = srv.log[i].raised)
    /\ [][C14_DecodeFailure =>
            /\ srv'.stops = srv.stops /\ srv'.brk = srv.brk
            /\ \A p \in Peers : sock'[p].closed \/ conn'[p].wtasks # <<>>]_vars

\* put(alien) carried an argument of a type only the client has
\* registered: the server answered with the decoding error, kept running,
\* and the call raised that error in the client
C14_Witness ==
    /\ srv.log # <<>> /\ C14_DecodeFailed(Len(srv.log))
    /\ srv.stops = 0 /\ Running(srv)
    /\ cli.pc = "idle" /\ cli.outcome = <<"raise", srv.log[Len(srv.log)].response>>

\* the tickets of the read tasks whose callback has started
C15_ReadsRun(c) == {ghost[c].rlog[p].tk : p \in 1..Len(ghost[c].rlog)}

\* C15: once a connection is closed its read and write queues are empty,
\* and no read or write task callback ever starts on a closed connection:
\* the tasks queued at the time of the close are discarded, also when the
\* close comes from inside a task callback during the walk of the read
\* queue.
C15_ClosedRunsNoTask ==
    \A c \in DOMAIN conn :
        /\ sock[c].closed => conn[c].rtasks = <<>> /\ conn[c].wtasks = <<>>
        /\ \A p \in 1..Len(ghost[c].rlog) : ~ghost[c].rlog[p].closed
        /\ \A p \in 1..Len(ghost[c].wlog) : ~ghost[c].wlog[p].closed

\* a queued read task's callback closed the connection during the walk of
\* the read queue (on_close ran under it) while a later read task was
\* queued behind it; that task's callback has not run
C15_Witness ==
    /\ sock[K].closed
    /\ \E e \in {ghost[K].clog[p] : p \in 1..Len(ghost[K].clog)} :
          \E t \in ghost[K].queued :
              /\ <<"r", t>> \in e.under
              /\ \E u \in ghost[K].queued : u > t /\ u \notin C15_ReadsRun(K)

AlreadyClosed == <<"ConnectionError", "already closed">>

\* the call left the connection as it was: queues, buffer, watchers and
\* socket unchanged, no callback started
C16_Untouched(w) ==
    /\ w.conn = conn /\ w.sock = sock
    /\ w.ghost[K].rlog = ghost[K].rlog
    /\ w.ghost[K].wlog = ghost[K].wlog
    /\ w.ghost[K].clog = ghost[K].clog
    /\ w.ghost[K].teardowns = ghost[K].teardowns

\* C16: on a closed connection read(n, cb) with n > 0 and write(buf) with a
\* non-empty buf raise the connection-closed error and leave queues, buffer
\* and watchers unchanged, starting no callback; read(0, cb) and
\* write(empty) change nothing and raise nothing, on any connection.
C16_ClosedRejectsReadAndWrite ==
    /\ \A cb \in ScriptIds :
          /\ C16_Untouched(read(Entry, K, 0, cb))
          /\ read(Entry, K, 0, cb).exc = NoExc
          /\ C16_Untouched(write(Entry, K, <<>>, cb))
          /\ write(Entry, K, <<>>, cb).exc = NoExc
    /\ sock[K].closed =>
          \A n \in 1..MaxBytes : \A cb \in ScriptIds :
              /\ C16_Untouched(read(Entry, K, n, cb))
              /\ read(Entry, K, n, cb).exc = AlreadyClosed
              /\ C16_Untouched(write(Entry, K, [i \in 1..n |-> 0], cb))
              /\ write(Entry, K, [i \in 1..n |-> 0], cb).exc = AlreadyClosed

\* user code has called read or write on the closed connection and the
\* call has raised
C16_Witness ==
    /\ sock[K].closed /\ TornDown(K)
    /\ exc = AlreadyClosed
    /\ ghost[K].nread + ghost[K].nwrite >= 1

\* C17: when the server loop stops, stopping() closes every peer of the
\* collection with notify=false before it closes the listening socket;
\* afterwards the collection is empty, every accepted peer is closed, and
\* __on_close__ has not been invoked for any peer the teardown closed.
C17_TeardownClosesPeersFirst ==
    /\ [](\A i \in 1..Len(srv.trace) : \A j \in 1..Len(srv.trace) :
            srv.trace[i][1] = "close" =>
                /\ srv.trace[j][1] = "listener" => i < j
                /\ srv.trace[j][1] = "on_close" =>
                       srv.trace[j][2] # srv.trace[i][2])
    /\ [](srv.lsock_closed =>
            /\ srv.peers = <<>>
            /\ \A p \in Peers : sock[p].closed /\ TornDown(p))
    /\ [][srv'.stops > srv.stops =>
            /\ srv'.lsock_closed
            /\ \A i \in 1..Len(srv.peers) :
                  \E j \in (Len(srv.trace) + 1)..Len(srv'.trace) :
                      srv'.trace[j] = <<"close", srv.peers[i]>>]_vars

\* both peers were open when the server stopped: the teardown closed the
\* last accepted first, then the other, then the listening socket, and the
\* server loop has returned
C17_Witness ==
    /\ srv.trace = << <<"close", Q>>, <<"close", P>>, <<"listener">> >>
    /\ srv.depth = 0

\* C18: between watcher callbacks the server's peer collection holds
\* exactly the accepted peers whose connection is still open, each once,
\* and __on_close__ has been invoked at most once for a peer.
C18_PeersAreTheOpenAccepted ==
    /\ {srv.peers[i] : i \in 1..Len(srv.peers)}
           = {p \in Peers : ~sock[p].closed}
    /\ \A i \in 1..Len(srv.peers) : \A j \in 1..Len(srv.peers) :
          srv.peers[i] = srv.peers[j] => i = j
    /\ \A i \in 1..Len(srv.trace) : \A j \in 1..Len(srv.trace) :
          srv.trace[i] = srv.trace[j] => i = j

\* both connections were accepted, the first accepted peer has closed and
\* removed itself, the other is still open and in the collection
C18_Witness ==
    /\ srv.peers = <<Q>>
    /\ ~sock[Q].closed /\ sock[P].closed
    /\ srv.trace = << <<"on_close", P>> >>
    /\ Running(srv)

\* C19: when the client connection of a running ClientLoop has closed,
\* whatever the cause, stop() has run on the ClientLoop (its watchers are
\* stopped), and the loop eventually reaches the stopped state.
C19_ClientCloseStopsLoop ==
    /\ [](sock[C].closed => cli.stops >= 1 /\ cli.active = {})
    /\ sock[C].closed ~> stopped(World, "cli")

\* the server closed the connection while the client was idle; stop() ran
\* once through on_close and the ClientLoop has returned
C19_Witness ==
    /\ sock[C].closed /\ sock[C].eof
    /\ cli.stops = 1
    /\ cli.depth = 0
    /\ cli.calls = 0

\* C20 as stated: whatever stop() calls are made during one run of a loop,
\* re-entrant ones and ones made after a first stop() has returned and
\* before start() has returned, the body of stop() (watchers stopped,
\* stopping() hook run) is executed exactly once.
C20_StopRunsOnce == srv.stops <= 1 /\ cli.stops <= 1

\* the loop went down the critical error path: its watchers are stopped,
\* stopping() has run and the loop is broken or has returned
C21_WentDown(who) ==
    LET l == IF who = "srv" THEN srv ELSE cli
    IN  /\ l.stops >= 1
        /\ l.active = {}
        /\ l.watchers = <<>>
        /\ l.brk \/ l.depth = 0
        /\ IF who = "srv"
           THEN srv.lsock_closed /\ srv.peers = <<>>
           ELSE sock[C].closed

\* the step in which starting() runs is the prepare watcher's, which is
\* active before it and neither active nor registered after it
C21_ByThePrepareWatcher(l, m) ==
    m.started # l.started =>
        /\ "prepare" \in l.active
        /\ "prepare" \notin m.active
        /\ \A i \in 1..Len(m.watchers) : m.watchers[i] # "prepare"

\* C21: for a start() of a loop the starting() hook runs exactly once, in
\* the prepare watcher's callback, which first stops and deregisters itself;
\* when starting() raises the loop goes down the critical error path and
\* stops (watchers stopped, stopping() run, loop broken).
C21_StartingRunsOnce ==
    /\ [](\A who \in {"srv", "cli"} :
            LET l == IF who = "srv" THEN srv ELSE cli
            IN  /\ l.started <= 1
                /\ l.failed => C21_WentDown(who))
    /\ [][/\ C21_ByThePrepareWatcher(srv, srv')
          /\ C21_ByThePrepareWatcher(cli, cli')]_vars
    /\ (srv.depth > 0) ~> (srv.started = 1)
    /\ (cli.depth > 0) ~> (cli.started = 1)

C21_Witness ==
    /\ srv.started = 1 /\ srv.failed /\ srv.depth = 0
    /\ cli.started = 1 /\ ~cli.failed /\ cli.calls = 1

\* the Peer of connection "q" exists and is open
C22_Open == Q \in DOMAIN conn /\ ~closed(World, Q)

C22_Rbuf == IF Q \in DOMAIN conn THEN conn[Q].rbuf ELSE <<>>

\* the payloads of the complete frames at the front of a stream
RECURSIVE C22_Frames(_)
C22_Frames(s) ==
    IF s = <<>> \/ s[1] = 0 \/ Len(s) < 1 + s[1]
    THEN <<>>
    ELSE LET n == size(SubSeq(s, 2, 1 + s[1]))
             end == 1 + s[1] + n
         IN  IF Len(s) < end
             THEN <<>>
             ELSE <<SubSeq(s, 2 + s[1], end)>> \o C22_Frames(Drop(s, end))

\* the payloads the handler was invoked with, in order
C22_Handled ==
    LET at == {i \in 1..Len(srv.heard) : srv.heard[i][2] = "request"}
        nth(k) == CHOOSE i \in at : Cardinality({j \in at : j <= i}) = k
    IN  [k \in 1..Cardinality(at) |-> srv.heard[nth(k)][3]]

C22_Quiet == C22_Open /\ sock[Q].inq = <<>> /\ conn[Q].wtasks = <<>>

C22_After(stage) ==
    CASE stage = "len" -> "size"
      [] stage = "size" -> "request"
      [] stage = "request" -> "write"
      [] stage = "write" -> "wait"
      [] stage = "wait" -> "len"

RECURSIVE C22_Flat(_)
C22_Flat(h) ==
    IF h = <<>> THEN <<>>
    ELSE (IF h[1][2] \in {"len", "size", "request"} THEN h[1][3] ELSE <<>>)
         \o C22_Flat(Tail(h))

\* what the open Peer waits for, given the last step of its cycle
C22_Armed ==
    LET h == srv.heard
        last == h[Len(h)]
        reading(n, cb) ==
            /\ conn[Q].wtasks = <<>>
            /\ Len(conn[Q].rtasks) = 1
            /\ conn[Q].rtasks[1][1] = n
            /\ conn[Q].rtasks[1][2] = cb
            /\ Len(conn[Q].rbuf) < n
        idle == conn[Q].wtasks = <<>> /\ conn[Q].rtasks = <<>>
    IN  IF h = <<>> \/ last[2] = "wait" THEN reading(1, "Peer.__on_len__")
        ELSE IF last[2] = "len"
        THEN IF last[3][1] = 0 THEN idle
             ELSE reading(last[3][1], "Peer.__on_size__")
        ELSE IF last[2] = "size"
        THEN IF size(last[3]) = 0 THEN idle
             ELSE reading(size(last[3]), "Peer.__on_request__")
        ELSE /\ last[2] = "write"
             /\ last[3] # <<>>
             /\ conn[Q].rtasks = <<>>
             /\ Len(conn[Q].wtasks) = 1
             /\ conn[Q].wtasks[1][2] = "Peer.wait"
             /\ \E k \in 0..(Len(last[3]) - 1) :
                    conn[Q].wtasks[1][1] = Drop(last[3], k)

RECURSIVE C23_Stages(_)
C23_Stages(s) ==
    IF s = <<>> THEN <<>>
    ELSE <<<<"len", <<s[1]>>>>>> \o
         (IF s[1] = 0 \/ Len(s) < 1 + s[1] THEN <<>>
          ELSE LET sz == SubSeq(s, 2, 1 + s[1])
                   end == 1 + s[1] + size(sz)
               IN  <<<<"size", sz>>>> \o
                   (IF size(sz) = 0 \/ Len(s) < end THEN <<>>
                    ELSE <<<<"request", SubSeq(s, 2 + s[1], end)>>>> \o
                         C23_Stages(Drop(s, end))))

\* the stage callbacks that were invoked, with the bytes each was given
C23_Heard ==
    LET stages == SelectSeq(srv.heard,
                      LAMBDA e : e[2] \in {"len", "size", "request"})
    IN  [k \in 1..Len(stages) |-> <<stages[k][2], stages[k][3]>>]

\* C23: whatever the split of the stream into reader events, the stage
\* callbacks invoked so far (length, size, payload) are the first ones of
\* the one reading of the stream, each invoked once with the same bytes, and
\* once the open Peer has read the whole stream and written its responses
\* they are all of them: the handler has seen the same payloads in the
\* same order.
C23_SplitIsInvisible ==
    /\ Len(C23_Heard) <= Len(C23_Stages(sock[Q].far))
    /\ \A k \in 1..Len(C23_Heard) : C23_Heard[k] = C23_Stages(sock[Q].far)[k]
    /\ C22_Quiet => C23_Heard = C23_Stages(sock[Q].far)

\* a payload that arrives in two reader events, after another frame
C23_Witness ==
    /\ C22_Open
    /\ Len(C22_Handled) = 1
    /\ conn[Q].rtasks # <<>>
    /\ conn[Q].rtasks[1][2] = "Peer.__on_request__"
    /\ Len(conn[Q].rbuf) = 1
    /\ Len(sock[Q].inq) = 1

\* the write with ticket t is the head task and its completion callback
\* makes no further call
C24_AtHead(t) ==
    /\ conn[K].wtasks # <<>>
    /\ conn[K].wtasks[1][3] = t
    /\ conn[K].wtasks[1][2] \in {"nop", "boom"}

C24_Completions(t) ==
    Cardinality({i \in 1..Len(ghost[K].wlog) : ghost[K].wlog[i].tk = t})

\* the bytes of the write queue are the bytes handed to write() that the
\* socket has not accepted: the head task holds what is left of its
\* buffer, at least one byte, and the tasks behind it are whole
C24_Pending ==
    \A i \in 1..Len(conn[K].wtasks) :
        LET t == conn[K].wtasks[i][3]
            before == IF t = 1 THEN 0 ELSE ghost[K].wcum[t - 1]
        IN  /\ conn[K].wtasks[i][1] # <<>>
            /\ i = 1 => /\ ghost[K].sent >= before
                        /\ Len(conn[K].wtasks[1][1]) =
                               ghost[K].wcum[t] - ghost[K].sent
            /\ i > 1 => Len(conn[K].wtasks[i][1]) = ghost[K].wcum[t] - before

\* a step takes the head task off the queue only with its last byte, or by
\* closing the connection
C24_HeadStays ==
    (conn[K].wtasks # <<>> /\
     (conn'[K].wtasks = <<>> \/
      conn'[K].wtasks[1][3] # conn[K].wtasks[1][3]))
    => \/ closed(World, K)'
       \/ ghost'[K].sent = ghost[K].wcum[conn[K].wtasks[1][3]]

\* C24: a queued write the socket accepts piecewise, down to one byte per
\* writer event and with would-block in between, stays the head task with
\* what is left of its buffer until the last byte is accepted, has its
\* completion callback invoked once and not more, and under fair writer
\* readiness does complete unless the connection is closed first.
C24_PartialWritesComplete ==
    /\ [](C24_Pending /\ \A t \in 1..MaxTickets : C24_Completions(t) <= 1)
    /\ [][C24_HeadStays]_vars
    /\ \A t \in 1..MaxTickets :
           C24_AtHead(t) ~> (C24_Completions(t) = 1 \/ closed(World, K))

\* the socket has taken one byte of a two-byte write
C24_Witness ==
    /\ ~closed(World, K)
    /\ ghost[K].wcum = <<2>>
    /\ ghost[K].sent = 1
    /\ C24_AtHead(1)
    /\ Len(conn[K].wtasks[1][1]) = 1

\* C25: a reader event or a writer event in which the socket would block
\* is not fatal and changes nothing: the connection stays open, read
\* buffer, read queue, write queue, watchers and socket are what they
\* were, no callback is invoked and nothing is raised.
C25_WouldBlockChangesNothing ==
    /\ conn[K].reader => __on_read__(Entry, K, <<"block">>) = Entry
    /\ conn[K].writer => __on_write__(Entry, K, <<"block">>) = Entry

\* both watchers active with a task waiting on each side and bytes buffered
C25_Witness ==
    /\ ~closed(World, K)
    /\ conn[K].reader /\ conn[K].rtasks # <<>> /\ conn[K].rbuf # <<>>
    /\ conn[K].writer /\ Len(conn[K].wtasks) = 2
    /\ <<"block">> \in ReadOutcomes(K) \cap WriteOutcomes(K)

\* in going from the present state to r a callback that raises was
\* invoked: a read task or a write task of the queue, or the on_close hook
C26_Raised(r) ==
    \/ \E i \in (Len(ghost[K].rlog) + 1)..Len(r.ghost[K].rlog) :
          \E j \in 1..Len(conn[K].rtasks) :
              /\ conn[K].rtasks[j][3] = r.ghost[K].rlog[i].tk
              /\ conn[K].rtasks[j][2] = "boom"
    \/ \E i \in (Len(ghost[K].wlog) + 1)..Len(r.ghost[K].wlog) :
          \E j \in 1..Len(conn[K].wtasks) :
              /\ conn[K].wtasks[j][3] = r.ghost[K].wlog[i].tk
              /\ conn[K].wtasks[j][2] = "boom"
    \/ /\ Len(r.ghost[K].clog) > Len(ghost[K].clog)
       /\ conn[K].on_close = "boom"

\* r is what a watcher callback or close() left: nothing is raised to the
\* caller, on_close has run at most once, and if a callback raised the
\* connection is closed and torn down
C26_Trapped(r) ==
    /\ r.exc = NoExc
    /\ r.stack = <<>>
    /\ Len(r.ghost[K].clog) <= 1
    /\ C26_Raised(r) =>
           /\ closed(r, K)
           /\ ~r.conn[K].closing
           /\ r.conn[K].on_close = None
           /\ ~r.conn[K].reader /\ ~r.conn[K].writer
           /\ r.conn[K].rtasks = <<>> /\ r.conn[K].wtasks = <<>>
           /\ r.ghost[K].teardowns = 1

C27_NoServableReadWaits ==
    \A c \in DOMAIN conn :
        (~closed(World, c) /\ conn[c].rtasks # <<>>) =>
            Len(conn[c].rbuf) < conn[c].rtasks[1][1]

\* bytes are buffered, short of what the head task needs, and a second
\* task waits behind it
C27_Witness ==
    /\ ~closed(World, K)
    /\ Len(conn[K].rtasks) = 2
    /\ conn[K].rtasks[1][1] = 2
    /\ Len(conn[K].rbuf) = 1
    /\ Len(ghost[K].rlog) >= 1

\* C28: between watcher callbacks every open Peer is waiting for a frame
\* stage (its read queue is not empty) or sending a response (its write
\* queue is not empty), whatever bytes it has received.
C28_OpenPeerIsNeverIdle ==
    \A p \in Peers :
        ~closed(World, p) => conn[p].rtasks # <<>> \/ conn[p].wtasks # <<>>

\* the reader event of connection c in this step finds the far end closed
\* and takes all the bytes that were left in the socket
C29_DataWithEof(c) ==
    /\ c \in DOMAIN conn
    /\ ~closed(World, c)
    /\ sock[c].eof
    /\ sock[c].inq # <<>>
    /\ sock'[c].inq = <<>>

\* the steps of the Peer's cycle since it last armed wait()
C29_Cycle(p) ==
    LET n == Len(srv.heard)
        waits == {i \in 1..n : srv.heard[i][2] = "wait"}
        from == IF waits = {} THEN 0
                ELSE CHOOSE i \in waits : \A j \in waits : j <= i
    IN  SubSeq(srv.heard, from + 1, n)

\* what is buffered and what is in the socket completes the request of
\* the client's call
C29_RequestCompletes(p) ==
    /\ \A i \in 1..Len(C29_Cycle(p)) : C29_Cycle(p)[i][2] \in {"len", "size"}
    /\ C22_Flat(C29_Cycle(p)) \o conn[p].rbuf \o sock[p].inq
           = FrameOf(cli.name)

\* the bytes of the response frame the client has taken off its buffer
C29_Taken ==
    IF conn[C].rtasks = <<>> THEN 0
    ELSE CASE conn[C].rtasks[1][2] = "Client.__on_len__" -> 0
           [] conn[C].rtasks[1][2] = "Client.__on_size__" -> 1
           [] conn[C].rtasks[1][2] = "Client.__on_result__" -> 2

\* the last response of the server, when the rest of its frame is what is
\* buffered and in the socket of the blocked client
C29_ResponseCompletes ==
    /\ cli.pc = "blocked"
    /\ srv.log # <<>>
    /\ srv.log[Len(srv.log)].response # Nil
    /\ Registered(srv.log[Len(srv.log)].response, "cli")
    /\ conn[C].rbuf \o sock[C].inq =
           Drop(encode(srv.log[Len(srv.log)].response, "srv").buf, C29_Taken)

\* C29: when a reader event delivers data together with the peer-closed
\* indication, the read tasks that data satisfies run before the
\* connection is closed.  A blocked client whose response completes in
\* that event has the response as its result, the connection is closed in
\* the same event, the result stays until the call returns, and the call
\* ends with it.  A Peer whose request completes in that event invokes the
\* handler once, and the response is not sent: the Peer is closed with an
\* empty write queue and nothing reaches the client's socket.
C29_DataBeforeClose ==
    [][/\ (C29_DataWithEof(C) /\ C29_ResponseCompletes) =>
              /\ cli'.result = srv.log[Len(srv.log)].response
              /\ closed(World, C)'
              /\ cli'.pc = "blocked"
       /\ (cli.pc = "blocked" /\ closed(World, C) /\ cli'.pc = "blocked") =>
              cli'.result = cli.result
       /\ (cli.pc = "blocked" /\ cli'.pc = "idle") =>
              cli'.outcome = Outcome(cli.result)
       /\ \A p \in Peers :
              (C29_DataWithEof(p) /\ C29_RequestCompletes(p)) =>
                  /\ Len(srv'.log) = Len(srv.log) + 1
                  /\ srv'.heard[Len(srv'.heard)][2] = "write"
                  /\ srv'.heard[Len(srv'.heard) - 1] =
                         <<p, "request", Drop(FrameOf(cli.name), 2)>>
                  /\ Cardinality({i \in 1..Len(srv'.heard) :
                                      srv'.heard[i][2] = "request"})
                         = Len(srv'.log)
                  /\ closed(World, p)'
                  /\ conn'[p].wtasks = <<>>
                  /\ sock'[C].inq = sock[C].inq]_vars

\* the blocked client has the response and its connection is closed: the
\* response came with the peer-closed indication
C29_Witness ==
    /\ cli.pc = "blocked"
    /\ cli.result = Val("hello")
    /\ closed(World, C)
    /\ sock[C].eof

====
